---- MODULE Spec2Model ----
(***************************************************************************)
(* The reference FFT of src/src/fft/fft.py: a radix-2 Cooley-Tukey step    *)
(* whose two half-size DFTs are one batched complex matrix product done    *)
(* with two real matmuls.                                                  *)
(*                                                                         *)
(* Numbers.  A float64 of the source is modelled by the real number it     *)
(* approximates, held exactly: rounding is not modelled, and equality in   *)
(* the model is what the source tests with np.allclose (fft.py:199, 210).  *)
(* A real is [n |-> f, e |-> e], standing for                              *)
(*      (SUM over t in DOMAIN f of f[t] * cos(2*pi*t)) / 2^e               *)
(* where t = <<p, q>> is the reduced fraction p/q of a turn, 0 <= t < 1/4, *)
(* f[t] # 0, and e is least.  For angles whose denominators are powers of  *)
(* two these cosines are linearly independent over the rationals, so that  *)
(* two reals are equal exactly when their representations are.             *)
(*                                                                         *)
(* Arrays.  A numpy array is its contents with the buffer it is a view of: *)
(* base = "fresh" for an array the callee allocated, or the name of the    *)
(* caller's buffer and the positions idx it shows.  An in-place write to a *)
(* view is a write to the caller's buffer.                                 *)
(***************************************************************************)
EXTENDS Integers, Sequences, FiniteSets, TLC

RECURSIVE SumFun(_, _)
SumFun(f, S) ==
  IF S = {} THEN 0
  ELSE LET x == CHOOSE x \in S : TRUE IN f[x] + SumFun(f, S \ {x})

RECURSIVE Pow2(_)
Pow2(k) == IF k = 0 THEN 1 ELSE 2 * Pow2(k - 1)

RECURSIVE Gcd(_, _)
Gcd(a, b) == IF b = 0 THEN a ELSE Gcd(b, a % b)

\* The fraction p/q (q > 0, p >= 0) in lowest terms.
Reduce(p, q) == LET g == Gcd(p, q) IN <<p \div g, q \div g>>

\* cos(2*pi*p/q) as a sign s and a basis angle t in [0, 1/4): cos is even and
\* of period one turn, and cos(pi - x) = -cos(x); s = 0 is the value 0.
Fold(p, q) ==
  LET p1 == p % q
      p2 == IF 2 * p1 > q THEN q - p1 ELSE p1
  IN  IF 4 * p2 = q THEN [s |-> 0, t |-> <<0, 1>>]
      ELSE IF 4 * p2 > q THEN [s |-> -1, t |-> Reduce(q - (2 * p2), 2 * q)]
      ELSE [s |-> 1, t |-> Reduce(p2, q)]

Coef(a, t) == IF t \in DOMAIN a.n THEN a.n[t] ELSE 0

RECURSIVE Normal(_)
Normal(a) ==
  IF a.e > 0 /\ \A t \in DOMAIN a.n : a.n[t] % 2 = 0
  THEN Normal([n |-> [t \in DOMAIN a.n |-> a.n[t] \div 2], e |-> a.e - 1])
  ELSE a

\* The real with coefficient c[t] at each angle t of S, over 2^e.
MkReal(c, S, e) == Normal([n |-> [t \in {u \in S : c[u] # 0} |-> c[t]], e |-> e])

RealOfInt(x) == MkReal([t \in {<<0, 1>>} |-> x], {<<0, 1>>}, 0)

IsInt(a) == a.e = 0 /\ DOMAIN a.n \subseteq {<<0, 1>>}

RNeg(a) == [n |-> [t \in DOMAIN a.n |-> 0 - a.n[t]], e |-> a.e]

RAdd(a, b) ==
  LET m == IF a.e > b.e THEN a.e ELSE b.e
      S == (DOMAIN a.n) \cup (DOMAIN b.n)
  IN  MkReal([t \in S |-> (Coef(a, t) * Pow2(m - a.e)) + (Coef(b, t) * Pow2(m - b.e))],
             S, m)

RSub(a, b) == RAdd(a, RNeg(b))

\* cos(x)*cos(y) = (cos(x+y) + cos(x-y))/2, term by term.
RMul(a, b) ==
  LET pr == (DOMAIN a.n) \X (DOMAIN b.n)
      plus(p)  == Fold((p[1][1] * p[2][2]) + (p[2][1] * p[1][2]), p[1][2] * p[2][2])
      minus(p) == Fold((p[1][1] * p[2][2]) + ((p[2][2] - p[2][1]) * p[1][2]),
                       p[1][2] * p[2][2])
      S == {plus(p).t : p \in pr} \cup {minus(p).t : p \in pr}
      at(p, f, t) == IF f.t = t THEN f.s * a.n[p[1]] * b.n[p[2]] ELSE 0
  IN  MkReal([t \in S |-> SumFun([p \in pr |-> at(p, plus(p), t) + at(p, minus(p), t)], pr)],
             S, a.e + b.e + 1)

\* np.cos(two_pi * p / q) and np.sin(two_pi * p / q); sin(x) = cos(x - pi/2).
np_cos(p, q) ==
  LET f == Fold(p, q) IN MkReal([t \in {f.t} |-> f.s], {f.t}, 0)

np_sin(p, q) == np_cos((4 * (p % q)) + (3 * q), 4 * q)

Zero == RealOfInt(0)

RECURSIVE RSum(_)
RSum(s) == IF s = <<>> THEN Zero ELSE RAdd(Head(s), RSum(Tail(s)))

(***************************************************************************)
(* numpy arrays.  A 1-D array is [val, base, idx]; a 2-D array is          *)
(* [rows, cols, a, base] with a the sequence of its rows.                  *)
(***************************************************************************)
FRESH == <<"fresh">>

Fresh1(val) == [val |-> val, base |-> FRESH, idx |-> [i \in 1..Len(val) |-> i]]

Fresh2(rows, cols, a) == [rows |-> rows, cols |-> cols, a |-> a, base |-> FRESH]

\* The caller's buffer `name` seen whole as a 1-D array.
View(name, val) == [val |-> val, base |-> name, idx |-> [i \in 1..Len(val) |-> i]]

\* A slice that stops short: a[start:len-1][::2] drops the last element of
\* an odd-length array from the even half.
EveryOtherFloor(a, start) ==
  LET n == IF Len(a.val) > start THEN (Len(a.val) - start) \div 2 ELSE 0
  IN  [val  |-> [i \in 1..n |-> a.val[start + (2 * i) - 1]],
       base |-> a.base,
       idx  |-> [i \in 1..n |-> a.idx[start + (2 * i) - 1]]]

\* a[start:][::2]: basic slicing returns a view of the same buffer.
EveryOther(a, start) ==
  LET n == IF Len(a.val) > start THEN ((Len(a.val) - start) + 1) \div 2 ELSE 0
  IN  [val  |-> [i \in 1..n |-> a.val[start + (2 * i) - 1]],
       base |-> a.base,
       idx  |-> [i \in 1..n |-> a.idx[start + (2 * i) - 1]]]

\* The writes an in-place store of `val` through the array `a` makes to
\* the caller's memory: none when the array is the callee's own.
StoreThrough(a, val) ==
  IF a.base = FRESH THEN <<>>
  ELSE <<[buf |-> a.base, idx |-> a.idx, val |-> val]>>

\* np.atleast_2d of a 1-D array (a copy is made by the vstack that follows).
atleast_2d(v) == Fresh2(1, Len(v), <<v>>)

\* np.asarray of a list of 1-D arrays: a ragged list has no array shape.
asarray(vs) ==
  IF \E j \in 1..Len(vs) : Len(vs[j]) # Len(vs[1])
  THEN [status |-> "ValueError", m |-> Fresh2(0, 0, <<>>)]
  ELSE [status |-> "ok",
        m |-> Fresh2(Len(vs), IF Len(vs) = 0 THEN 0 ELSE Len(vs[1]), vs)]

RECURSIVE ConcatRows(_)
ConcatRows(parts) ==
  IF parts = <<>> THEN <<>> ELSE Head(parts).a \o ConcatRows(Tail(parts))

\* np.vstack of 2-D parts: needs one part at least, and equal widths.
np_vstack(parts) ==
  IF Len(parts) = 0 \/ \E j \in 1..Len(parts) : parts[j].cols # parts[1].cols
  THEN [status |-> "ValueError", m |-> Fresh2(0, 0, <<>>)]
  ELSE LET a == ConcatRows(parts)
       IN  [status |-> "ok", m |-> Fresh2(Len(a), parts[1].cols, a)]

\* m.T
Transpose(m) ==
  Fresh2(m.cols, m.rows, [i \in 1..m.cols |-> [j \in 1..m.rows |-> m.a[j][i]]])

\* Unary minus: a new array.
np_negative(m) ==
  Fresh2(m.rows, m.cols, [i \in 1..m.rows |-> [j \in 1..m.cols |-> RNeg(m.a[i][j])]])

\* A product that puts up with unequal inner dimensions, summing over the
\* shorter of the two.
np_matmul_lax(A, B) ==
  LET inner == IF A.cols < B.rows THEN A.cols ELSE B.rows
  IN  [status |-> "ok",
       m |-> Fresh2(A.rows, B.cols,
               [i \in 1..A.rows |-> [j \in 1..B.cols |->
                  RSum([k \in 1..inner |-> RMul(A.a[i][k], B.a[k][j])])]])]

\* np.matmul of 2-D arrays: the inner dimensions must agree; a new array.
np_matmul(A, B) ==
  IF A.cols # B.rows
  THEN [status |-> "ValueError", m |-> Fresh2(0, 0, <<>>)]
  ELSE [status |-> "ok",
        m |-> Fresh2(A.rows, B.cols,
                [i \in 1..A.rows |-> [j \in 1..B.cols |->
                   RSum([k \in 1..A.cols |-> RMul(A.a[i][k], B.a[k][j])])]])]

\* partial += other: the sum is stored into partial's own buffer.
iadd(partial, other) ==
  LET a == [i \in 1..partial.rows |-> [j \in 1..partial.cols |->
              RAdd(partial.a[i][j], other.a[i][j])]]
  IN  [m  |-> [partial EXCEPT !.a = a],
       wr |-> IF partial.base = FRESH THEN <<>>
              ELSE << [buf |-> partial.base, idx |-> <<>>, val |-> a] >>]

\* m[:, lo:hi] (0-based, hi exclusive).
Columns(m, lo, hi) ==
  [rows |-> m.rows, cols |-> hi - lo,
   a |-> [i \in 1..m.rows |-> [j \in 1..(hi - lo) |-> m.a[i][lo + j]]],
   base |-> m.base]

\* m[:, j] (0-based) as a 1-D array.
Column(m, j) == [i \in 1..m.rows |-> m.a[i][j + 1]]

\* Element-wise np.multiply, + and - of 1-D arrays of one length (the only
\* shapes my_fft passes: a failed even/odd split never gets this far).
np_multiply(a, b) == [i \in 1..Len(a) |-> RMul(a[i], b[i])]

np_add(a, b) == [i \in 1..Len(a) |-> RAdd(a[i], b[i])]

np_subtract(a, b) == [i \in 1..Len(a) |-> RSub(a[i], b[i])]

(***************************************************************************)
(* The functions of fft.py.  A call's outcome is a record: status ("ok" or *)
(* the exception raised), the values returned, wr (the writes the call     *)
(* made to the caller's memory, in order) and ev (the matrices it built    *)
(* and multiplied, in order).                                              *)
(***************************************************************************)
None == [rows |-> -1, cols |-> -1, a |-> <<>>, base |-> <<"None">>]

Raise(kind, ev, wr) == [status |-> kind, re |-> None, im |-> None, wr |-> wr, ev |-> ev]

\* The row index taken from 1: the angle two_pi * c * (r + 1) / N.
inverse_fourier_matrix_rowphase(N) ==
  [re |-> Fresh2(N, N, [r \in 1..N |-> [c \in 1..N |-> np_cos((c - 1) * r, N)]]),
   im |-> Fresh2(N, N, [r \in 1..N |-> [c \in 1..N |-> RNeg(np_sin((c - 1) * r, N))]])]

inverse_fourier_matrix(N) ==
  [re |-> Fresh2(N, N, [r \in 1..N |-> [c \in 1..N |->
             np_cos((c - 1) * (r - 1), N)]]),
   im |-> Fresh2(N, N, [r \in 1..N |-> [c \in 1..N |->
             RNeg(np_sin((c - 1) * (r - 1), N))]])]

\* The twiddles of the other sign convention: the angle two_pi * n / N.
fft_recombine_coeffs_conj(N) ==
  LET base_size == N \div 2
  IN  [re |-> [n \in 1..base_size |-> np_cos(n - 1, N)],
       im |-> [n \in 1..base_size |-> np_sin(n - 1, N)]]

fft_recombine_coeffs(N) ==
  LET base_size == N \div 2
  IN  [re |-> [n \in 1..base_size |-> np_cos((n - 1) * (N - 1), N)],
       im |-> [n \in 1..base_size |-> np_sin((n - 1) * (N - 1), N)]]

\* A slip of the pen in the real part: re_v2 * re_v2 for re_v1 * re_v2.
complex_multiply_typo(re_v1, im_v1, re_v2, im_v2) ==
  [re |-> np_subtract(np_multiply(re_v2, re_v2), np_multiply(im_v1, im_v2)),
   im |-> np_add(np_multiply(re_v1, im_v2), np_multiply(im_v1, re_v2))]

complex_multiply(re_v1, im_v1, re_v2, im_v2) ==
  [re |-> np_subtract(np_multiply(re_v1, re_v2), np_multiply(im_v1, im_v2)),
   im |-> np_add(np_multiply(re_v1, im_v2), np_multiply(im_v1, re_v2))]

\* The imaginary parts negated where they are (np.negative(v, out=v) on each
\* vector) and then stacked: every vector that is a view writes through.
RECURSIVE NegateInPlace(_)
NegateInPlace(im_v) ==
  IF im_v = <<>> THEN <<>>
  ELSE StoreThrough(Head(im_v), [i \in 1..Len(Head(im_v).val) |-> RNeg(Head(im_v).val[i])])
       \o NegateInPlace(Tail(im_v))

negated_imag_inplace(im_v) ==
  LET st == np_vstack([j \in 1..Len(im_v) |-> atleast_2d(im_v[j].val)])
  IN  [status |-> st.status, m |-> np_negative(st.m), wr |-> NegateInPlace(im_v)]

\* neg_im_v = -np.vstack([*im_v]): the stack copies, the minus allocates.
negated_imag(im_v) ==
  LET st == np_vstack([j \in 1..Len(im_v) |-> atleast_2d(im_v[j].val)])
  IN  [status |-> st.status, m |-> np_negative(st.m), wr |-> <<>>]

\* The two lists stacked in the other order: np.vstack(([*im_v], [*re_v])).T
re_batch_swapped(re_v, im_v) ==
  LET A == asarray([j \in 1..Len(re_v) |-> re_v[j].val])
      B == asarray([j \in 1..Len(im_v) |-> im_v[j].val])
      st == np_vstack(<<B.m, A.m>>)
  IN  IF A.status # "ok" \/ B.status # "ok" THEN [status |-> "ValueError", m |-> A.m]
      ELSE [status |-> st.status, m |-> Transpose(st.m)]

\* np.vstack(([*re_v], [*im_v])).T
re_batch(re_v, im_v) ==
  LET A == asarray([j \in 1..Len(re_v) |-> re_v[j].val])
      B == asarray([j \in 1..Len(im_v) |-> im_v[j].val])
      st == np_vstack(<<A.m, B.m>>)
  IN  IF A.status # "ok" \/ B.status # "ok" THEN [status |-> "ValueError", m |-> A.m]
      ELSE [status |-> st.status, m |-> Transpose(st.m)]

\* The negated imaginary parts stacked last vector first:
\* np.vstack([*neg_im_v[::-1], *re_v]).T
im_batch_reversed(neg_im_v, re_v) ==
  LET st == np_vstack([j \in 1..neg_im_v.rows |->
                         atleast_2d(neg_im_v.a[neg_im_v.rows + 1 - j])]
                      \o [j \in 1..Len(re_v) |-> atleast_2d(re_v[j].val)])
  IN  [status |-> st.status, m |-> Transpose(st.m)]

\* np.vstack([*neg_im_v, *re_v]).T
im_batch(neg_im_v, re_v) ==
  LET st == np_vstack([j \in 1..neg_im_v.rows |-> atleast_2d(neg_im_v.a[j])]
                      \o [j \in 1..Len(re_v) |-> atleast_2d(re_v[j].val)])
  IN  [status |-> st.status, m |-> Transpose(st.m)]

complex_matvecs_mul(re_M, im_M, re_v, im_v) ==
  LET k          == Len(re_v)
      neg_im_v   == negated_imag(im_v)
      re_M_batch == re_batch(re_v, im_v)
      im_M_batch == im_batch(neg_im_v.m, re_v)
      first      == np_matmul(re_M, re_M_batch.m)
      second     == np_matmul(im_M, im_M_batch.m)
      partial    == iadd(first.m, second.m)
  IN  IF ~(Len(re_v) = Len(im_v)) THEN Raise("RuntimeError", <<>>, <<>>)
      ELSE IF neg_im_v.status # "ok" THEN Raise("ValueError", <<>>, neg_im_v.wr)
      ELSE IF re_M_batch.status # "ok"
        THEN Raise("ValueError", <<"vstack">>, neg_im_v.wr)
      ELSE IF im_M_batch.status # "ok"
        THEN Raise("ValueError", <<"vstack", "vstack">>, neg_im_v.wr)
      ELSE IF first.status # "ok"
        THEN Raise("ValueError", <<"vstack", "vstack", "vstack">>, neg_im_v.wr)
      ELSE IF second.status # "ok"
        THEN Raise("ValueError", <<"vstack", "vstack", "vstack", "matmul">>, neg_im_v.wr)
      ELSE [status |-> "ok",
            re |-> Columns(partial.m, 0, k),
            im |-> Columns(partial.m, k, 2 * k),
            wr |-> neg_im_v.wr \o partial.wr,
            ev |-> <<"vstack", "vstack", "vstack", "matmul", "matmul">>]

\* The count check made after the matrix is built.
my_dft_late_check(re_v, im_v) ==
  IF Len(re_v) > 0
  THEN LET fft_size == Len(re_v[1].val)
           F == inverse_fourier_matrix(fft_size)
           r == complex_matvecs_mul(F.re, F.im, re_v, im_v)
       IN  [r EXCEPT !.ev = <<"inverse_fourier_matrix">> \o r.ev]
  ELSE IF ~(Len(re_v) = Len(im_v)) THEN Raise("RuntimeError", <<>>, <<>>)
  ELSE [status |-> "ok", re |-> None, im |-> None, wr |-> <<>>, ev |-> <<>>]

my_dft(re_v, im_v) ==
  IF ~(Len(re_v) = Len(im_v)) THEN Raise("RuntimeError", <<>>, <<>>)
  ELSE IF Len(re_v) > 0
  THEN LET fft_size == Len(re_v[1].val)
           F == inverse_fourier_matrix(fft_size)
           r == complex_matvecs_mul(F.re, F.im, re_v, im_v)
       IN  [r EXCEPT !.ev = <<"inverse_fourier_matrix">> \o r.ev]
  ELSE [status |-> "ok", re |-> None, im |-> None, wr |-> <<>>, ev |-> <<>>]

\* The second half of my_fft: the twiddles applied to the odd half's
\* transform, and the butterflies (fft.py:145-169).
recombine(re_results, im_results, N) ==
  LET re_even == Column(re_results, 0)
      re_odd  == Column(re_results, 1)
      im_even == Column(im_results, 0)
      im_odd  == Column(im_results, 1)
      w == fft_recombine_coeffs(N)
      tmp == complex_multiply(w.re, w.im, re_odd, im_odd)
      re_lower == np_add(re_even, tmp.re)
      im_lower == np_add(im_even, tmp.im)
      re_upper == np_subtract(re_even, tmp.re)
      im_upper == np_subtract(im_even, tmp.im)
  IN  [re |-> re_lower \o re_upper, im |-> im_lower \o im_upper]

\* y is [real, imag]: the two component views of the caller's complex array.
my_fft(y) ==
  LET re_y_even == EveryOther(y.real, 0)
      re_y_odd  == EveryOther(y.real, 1)
      im_y_even == EveryOther(y.imag, 0)
      im_y_odd  == EveryOther(y.imag, 1)
      d == my_dft(<<re_y_even, re_y_odd>>, <<im_y_even, im_y_odd>>)
      result == recombine(d.re, d.im, Len(y.real.val))
  IN  IF d.status # "ok"
      THEN [status |-> d.status, re |-> <<>>, im |-> <<>>, wr |-> d.wr, ev |-> d.ev]
      ELSE [status |-> "ok", re |-> result.re, im |-> result.im,
            wr |-> d.wr, ev |-> d.ev \o <<"fft_recombine_coeffs">>]

(***************************************************************************)
(* The caller.  It owns the arrays it passes (mem), calls the functions in *)
(* any order, any number of times, and keeps what the last call returned.  *)
(***************************************************************************)
MaxN == 8
MaxDim == 2
MaxLen == 2
MaxBatch == 3

ImpulseValues == {<<0, 0>>, <<1, 0>>, <<0, 1>>, <<-1, -1>>}
MatSeeds == {<<1, -2>>, <<0, 3>>}
VecSeeds == {<<1, 0>>, <<-1, 2>>}

VARIABLES kind, mem, orig, op, ret, ev
vars == <<kind, mem, orig, op, ret, ev>>

Reals(v) == [i \in 1..Len(v) |-> RealOfInt(v[i])]

Memory(N, y_real, y_imag, re_M, im_M, re_v, im_v) ==
  [N |-> N, y_real |-> y_real, y_imag |-> y_imag,
   re_M |-> re_M, im_M |-> im_M, re_v |-> re_v, im_v |-> im_v]

\* Complex vectors of length N: the sum of two impulses of values u and v at
\* the places i and j, and the vectors of +1 and -1.
TwoImpulses(N) ==
  { [real |-> [p \in 1..N |-> (IF p = i THEN u[1] ELSE 0) + (IF p = j THEN v[1] ELSE 0)],
     imag |-> [p \in 1..N |-> (IF p = i THEN u[2] ELSE 0) + (IF p = j THEN v[2] ELSE 0)]] :
    i \in 1..N, j \in 1..N, u \in ImpulseValues, v \in ImpulseValues }

Signs(N) == { [real |-> s, imag |-> [p \in 1..N |-> 0]] : s \in [1..N -> {1, -1}] }

Inputs(N) == TwoImpulses(N) \cup Signs(N)

VectorMemory ==
  { Memory(Len(y.real), Reals(y.real), Reals(y.imag), <<>>, <<>>, <<>>, <<>>) :
    y \in UNION { Inputs(N) : N \in 0..MaxN } }

\* The N x N matrix of the consecutive integers from a, row by row.
Mat(N, a) == [r \in 1..N |-> [c \in 1..N |-> RealOfInt(a + ((r - 1) * N) + (c - 1))]]

\* The vector s, s+1, ... of length L.
Vec(L, s) == [i \in 1..L |-> RealOfInt(s + i - 1)]

\* The lengths of a batch of k real and k2 imaginary parts: all L, or all L
\* but one.
Shapes(k, k2) ==
  { [re |-> [j \in 1..k |-> L], im |-> [j \in 1..k2 |-> L]] : L \in 0..MaxLen }
  \cup { [re |-> [j \in 1..k |-> IF j = d THEN L2 ELSE L], im |-> [j \in 1..k2 |-> L]] :
         L \in 0..MaxLen, L2 \in 0..MaxLen, d \in 1..k }
  \cup { [re |-> [j \in 1..k |-> L], im |-> [j \in 1..k2 |-> IF j = d THEN L2 ELSE L]] :
         L \in 0..MaxLen, L2 \in 0..MaxLen, d \in 1..k2 }

BatchMemory ==
  { Memory(N, <<>>, <<>>, Mat(N, ms[1]), Mat(N, ms[2]),
           [j \in 1..Len(sh.re) |-> Vec(sh.re[j], vs[1] + (2 * (j - 1)))],
           [j \in 1..Len(sh.im) |-> Vec(sh.im[j], vs[2] - (3 * (j - 1)))]) :
    N \in 0..MaxDim, ms \in MatSeeds, vs \in VecSeeds,
    sh \in UNION { Shapes(k, k2) : k \in 0..MaxBatch, k2 \in 0..MaxBatch } }

SizeMemory == { Memory(N, <<>>, <<>>, <<>>, <<>>, <<>>, <<>>) : N \in 0..MaxN }

\* The caller's memory after the writes wr, in order.
Store(m, w) ==
  LET upd(old) == [i \in 1..Len(old) |->
                     IF \E p \in 1..Len(w.idx) : w.idx[p] = i
                     THEN w.val[CHOOSE p \in 1..Len(w.idx) : w.idx[p] = i]
                     ELSE old[i]]
      b == w.buf[1]
  IN  IF b = "y_real" THEN [m EXCEPT !.y_real = upd(@)]
      ELSE IF b = "y_imag" THEN [m EXCEPT !.y_imag = upd(@)]
      ELSE IF b = "re_v" THEN [m EXCEPT !.re_v[w.buf[2]] = upd(@)]
      ELSE IF b = "im_v" THEN [m EXCEPT !.im_v[w.buf[2]] = upd(@)]
      ELSE IF b = "re_M" THEN [m EXCEPT !.re_M = w.val]
      ELSE [m EXCEPT !.im_M = w.val]

RECURSIVE ApplyWrites(_, _)
ApplyWrites(m, wr) ==
  IF wr = <<>> THEN m ELSE ApplyWrites(Store(m, Head(wr)), Tail(wr))

\* The caller's arrays as the arguments of a call.
ArgY(m) == [real |-> View(<<"y_real">>, m.y_real), imag |-> View(<<"y_imag">>, m.y_imag)]

ArgReV(m) == [j \in 1..Len(m.re_v) |-> View(<<"re_v", j>>, m.re_v[j])]

ArgImV(m) == [j \in 1..Len(m.im_v) |-> View(<<"im_v", j>>, m.im_v[j])]

ArgReM(m) == [rows |-> Len(m.re_M), cols |-> Len(m.re_M), a |-> m.re_M, base |-> <<"re_M">>]

ArgImM(m) == [rows |-> Len(m.im_M), cols |-> Len(m.im_M), a |-> m.im_M, base |-> <<"im_M">>]

Returned(r) == [status |-> r.status, re |-> r.re, im |-> r.im]

Init ==
  /\ \/ kind = "vector" /\ mem \in VectorMemory
     \/ kind = "batch" /\ mem \in BatchMemory
     \/ kind = "size" /\ mem \in SizeMemory
  /\ orig = mem
  /\ op = "none"
  /\ ret = [status |-> "none"]
  /\ ev = <<>>

Effect(name, r) ==
  /\ op' = name
  /\ mem' = ApplyWrites(mem, r.wr)
  /\ ret' = Returned(r)
  /\ ev' = r.ev
  /\ UNCHANGED <<kind, orig>>

CallFft == kind = "vector" /\ Effect("my_fft", my_fft(ArgY(mem)))

CallDft == kind = "batch" /\ Effect("my_dft", my_dft(ArgReV(mem), ArgImV(mem)))

CallMatvecsMul ==
  /\ kind = "batch"
  /\ Effect("complex_matvecs_mul",
            complex_matvecs_mul(ArgReM(mem), ArgImM(mem), ArgReV(mem), ArgImV(mem)))

CallInverseFourierMatrix ==
  /\ kind = "size"
  /\ LET F == inverse_fourier_matrix(mem.N)
     IN  Effect("inverse_fourier_matrix",
                [status |-> "ok", re |-> F.re, im |-> F.im, wr |-> <<>>,
                 ev |-> <<"inverse_fourier_matrix">>])

CallRecombineCoeffs ==
  /\ kind = "size"
  /\ LET w == fft_recombine_coeffs(mem.N)
     IN  Effect("fft_recombine_coeffs",
                [status |-> "ok", re |-> w.re, im |-> w.im, wr |-> <<>>,
                 ev |-> <<"fft_recombine_coeffs">>])

Next ==
  \/ CallFft
  \/ CallDft
  \/ CallMatvecsMul
  \/ CallInverseFourierMatrix
  \/ CallRecombineCoeffs

Spec == Init /\ [][Next]_vars

(***************************************************************************)
(* Reference results, computed apart from the code under check.            *)
(***************************************************************************)
\* scipy.fft.fft: result[k] = SUM_n y[n] * exp(-2*pi*i*n*k/N).
scipy_fft(re, im) ==
  LET N == Len(re)
  IN  [re |-> [k \in 1..N |-> RSum([n \in 1..N |->
                 RAdd(RMul(re[n], np_cos((n - 1) * (k - 1), N)),
                      RMul(im[n], np_sin((n - 1) * (k - 1), N)))])],
       im |-> [k \in 1..N |-> RSum([n \in 1..N |->
                 RSub(RMul(im[n], np_cos((n - 1) * (k - 1), N)),
                      RMul(re[n], np_sin((n - 1) * (k - 1), N)))])]]

\* The matrix M (a sequence of rows) applied to the vector v.
MatVec(M, v) == [r \in 1..Len(M) |-> RSum([c \in 1..Len(v) |-> RMul(M[r][c], v[c])])]

IsPow2(n) == \E e \in 0..n : n = Pow2(e)

\* The batch of the caller is k real and k imaginary parts, all of length N.
WellFormedBatch(m) ==
  /\ Len(m.re_v) = Len(m.im_v)
  /\ \A j \in 1..Len(m.re_v) : Len(m.re_v[j]) = m.N
  /\ \A j \in 1..Len(m.im_v) : Len(m.im_v[j]) = m.N

\* What the call `name` returns when run alone on the memory m.
Alone(name, m) ==
  IF name = "my_fft" THEN Returned(my_fft(ArgY(m)))
  ELSE IF name = "my_dft" THEN Returned(my_dft(ArgReV(m), ArgImV(m)))
  ELSE IF name = "complex_matvecs_mul"
    THEN Returned(complex_matvecs_mul(ArgReM(m), ArgImM(m), ArgReV(m), ArgImV(m)))
  ELSE IF name = "inverse_fourier_matrix"
    THEN [status |-> "ok", re |-> inverse_fourier_matrix(m.N).re,
          im |-> inverse_fourier_matrix(m.N).im]
  ELSE [status |-> "ok", re |-> fft_recombine_coeffs(m.N).re,
        im |-> fft_recombine_coeffs(m.N).im]

(***************************************************************************)
(* The claims.                                                             *)
(***************************************************************************)
FftOf(m) == scipy_fft(m.y_real, m.y_imag)

MatchesReference == ret.status = "ok" /\ ret.re = FftOf(orig).re /\ ret.im = FftOf(orig).im

\* C1 as stated: for every power of two N and every complex vector y of
\* length N, my_fft returns the DFT of y.
C1_AsStated == (op = "my_fft" /\ IsPow2(orig.N)) => MatchesReference

\* C1, amended: for every power of two N >= 2 and every complex vector y of
\* length N, my_fft returns the DFT of y, result[k] = SUM_n y[n] *
\* exp(-2*pi*i*n*k/N), as the independent DFT computes it; in particular
\* fft([1,1,1,1]) = [4,0,0,0] and fft([1,-1]) = [0,2].
C1_FftIsDft ==
  op = "my_fft" =>
    /\ (IsPow2(orig.N) /\ orig.N >= 2) => MatchesReference
    /\ (orig.y_real = Reals(<<1, 1, 1, 1>>) /\ orig.y_imag = Reals(<<0, 0, 0, 0>>))
         => (ret.re = Reals(<<4, 0, 0, 0>>) /\ ret.im = Reals(<<0, 0, 0, 0>>))
    /\ (orig.y_real = Reals(<<1, -1>>) /\ orig.y_imag = Reals(<<0, 0>>))
         => (ret.re = Reals(<<0, 2>>) /\ ret.im = Reals(<<0, 0>>))

\* A transform of length 8 has returned, with an output that is no integer
\* (a twiddle of cos(pi/4) took part) and an input with an imaginary part.
C1_Witness ==
  /\ op = "my_fft" /\ orig.N = 8 /\ ret.status = "ok"
  /\ \E k \in 1..8 : ~IsInt(ret.re[k])
  /\ \E n \in 1..8 : orig.y_imag[n] # Zero

\* C3: my_fft of an input of odd length fails with the size-mismatch error
\* numpy raises (ValueError) for the even and odd halves of unequal length;
\* it returns no result, and the input is not cut to fit.
C3_OddLengthFails ==
  (op = "my_fft" /\ orig.N % 2 = 1) =>
    /\ ret.status = "ValueError"
    /\ ret.re = <<>> /\ ret.im = <<>>
    /\ ~("matmul" \in {ev[i] : i \in 1..Len(ev)})

\* my_fft has been called on an input of length 3 and has raised.
C3_Witness == op = "my_fft" /\ orig.N = 3 /\ ret.status = "ValueError"

\* C4 as stated: my_fft of a zero-length input fails; it returns no result.
C4_AsStated == (op = "my_fft" /\ orig.N = 0) => ret.status # "ok"

\* The two results are N x k and column j holds M * v_j:
\* Re = ReM*Re(v_j) - ImM*Im(v_j), Im = ImM*Re(v_j) + ReM*Im(v_j).
ColumnsAreProducts ==
  LET k == Len(orig.re_v)
  IN  /\ ret.status = "ok"
      /\ ret.re.rows = orig.N /\ ret.re.cols = k
      /\ ret.im.rows = orig.N /\ ret.im.cols = k
      /\ \A j \in 1..k :
           /\ Column(ret.re, j - 1) =
                np_subtract(MatVec(orig.re_M, orig.re_v[j]), MatVec(orig.im_M, orig.im_v[j]))
           /\ Column(ret.im, j - 1) =
                np_add(MatVec(orig.im_M, orig.re_v[j]), MatVec(orig.re_M, orig.im_v[j]))

C5_CountMismatchFailsFirst ==
  (op \in {"complex_matvecs_mul", "my_dft"} /\ Len(orig.re_v) # Len(orig.im_v)) =>
    /\ ret.status = "RuntimeError"
    /\ ret.re = None /\ ret.im = None
    /\ ev = <<>>

\* my_dft has been called with 2 real and 3 imaginary vectors and has raised.
C5_Witness ==
  /\ op = "my_dft" /\ Len(orig.re_v) = 2 /\ Len(orig.im_v) = 3
  /\ ret.status = "RuntimeError"

\* Some vector of the batch has a length other than the matrix dimension.
SomeLengthOff(m) ==
  \/ \E j \in 1..Len(m.re_v) : Len(m.re_v[j]) # m.N
  \/ \E j \in 1..Len(m.im_v) : Len(m.im_v[j]) # m.N

\* C6: with as many real as imaginary vectors, of which one at least has a
\* length other than the matrix dimension, complex_matvecs_mul raises numpy's
\* size-mismatch error (ValueError) and returns no result.
C6_LengthMismatchFails ==
  (op = "complex_matvecs_mul" /\ Len(orig.re_v) = Len(orig.im_v) /\ SomeLengthOff(orig)) =>
    /\ ret.status = "ValueError"
    /\ ret.re = None /\ ret.im = None

\* Two vectors of one length, which is not the matrix dimension, got as far
\* as the first matmul, which raised.
C6_Witness ==
  /\ op = "complex_matvecs_mul" /\ ret.status = "ValueError"
  /\ orig.N = 2 /\ Len(orig.re_v) = 2 /\ Len(orig.im_v) = 2
  /\ \A j \in 1..2 : Len(orig.re_v[j]) = 1 /\ Len(orig.im_v[j]) = 1
  /\ ev = <<"vstack", "vstack", "vstack">>

\* complex_matvecs_mul on the batch of the one vector j of the memory m.
Single(m, j) ==
  complex_matvecs_mul(ArgReM(m), ArgImM(m),
                      <<View(<<"re_v", j>>, m.re_v[j])>>, <<View(<<"im_v", j>>, m.im_v[j])>>)

\* C7: for every batch of k >= 1 vectors of the matrix's dimension, column j
\* of either result of complex_matvecs_mul is what a call on the batch of
\* vector j alone returns.
C7_BatchEqualsSingles ==
  (op = "complex_matvecs_mul" /\ WellFormedBatch(orig) /\ Len(orig.re_v) >= 1) =>
    /\ ret.status = "ok"
    /\ \A j \in 1..Len(orig.re_v) :
         /\ Single(orig, j).status = "ok"
         /\ Column(ret.re, j - 1) = Column(Single(orig, j).re, 0)
         /\ Column(ret.im, j - 1) = Column(Single(orig, j).im, 0)

\* A batch of three vectors of length two has been multiplied.
C7_Witness ==
  /\ op = "complex_matvecs_mul" /\ ret.status = "ok"
  /\ orig.N = 2 /\ Len(orig.re_v) = 3
  /\ Column(ret.im, 0) # Column(ret.im, 2)

CScale(a, z) ==
  [re |-> [i \in 1..Len(z.re) |->
             RSub(RMul(RealOfInt(a[1]), z.re[i]), RMul(RealOfInt(a[2]), z.im[i]))],
   im |-> [i \in 1..Len(z.re) |->
             RAdd(RMul(RealOfInt(a[1]), z.im[i]), RMul(RealOfInt(a[2]), z.re[i]))]]

CAdd(z1, z2) == [re |-> np_add(z1.re, z2.re), im |-> np_add(z1.im, z2.im)]

Combination(a, z1, b, z2) == CAdd(CScale(a, z1), CScale(b, z2))

\* The pairs of scalars (a, b), and the second vectors the combinations are
\* made with: y backwards, and the ramp 1, 2, ... (real) with N, N-1, ...
\* (imaginary).
ScalarPairs == { <<<<2, 0>>, <<-1, 0>>>>, <<<<0, 1>>, <<1, 1>>>> }

Companions(y) ==
  LET N == Len(y.re)
  IN  { [re |-> [i \in 1..N |-> y.re[N + 1 - i]], im |-> [i \in 1..N |-> y.im[N + 1 - i]]],
        [re |-> [i \in 1..N |-> RealOfInt(i)], im |-> [i \in 1..N |-> RealOfInt(N + 1 - i)]] }

FftAlone(z) == my_fft([real |-> Fresh1(z.re), imag |-> Fresh1(z.im)])

\* C9: my_fft is linear on every even length: my_fft(a*y1 + b*y2) equals
\* a*my_fft(y1) + b*my_fft(y2), element by element.
C9_Linear ==
  (op = "my_fft" /\ orig.N % 2 = 0) =>
    /\ ret.status = "ok"
    /\ \A s \in ScalarPairs :
         \A z \in Companions([re |-> orig.y_real, im |-> orig.y_imag]) :
           LET fz == FftAlone(z)
               fc == FftAlone(Combination(s[1], [re |-> orig.y_real, im |-> orig.y_imag],
                                          s[2], z))
           IN  /\ fz.status = "ok" /\ fc.status = "ok"
               /\ [re |-> fc.re, im |-> fc.im] =
                    Combination(s[1], [re |-> ret.re, im |-> ret.im],
                                s[2], [re |-> fz.re, im |-> fz.im])

\* A transform of length 8 of an input that is not zero has returned.
C9_Witness ==
  /\ op = "my_fft" /\ orig.N = 8 /\ ret.status = "ok"
  /\ \E n \in 1..8 : orig.y_real[n] # Zero
  /\ \E k \in 1..8 : ret.im[k] # Zero

\* C10: after any call, successful or failing, the caller's vectors and
\* matrices hold what they held before the first call, and the call returned
\* what it returns when run alone on them.
C10_ArgumentsUntouched ==
  op # "none" => (mem = orig /\ ret = Alone(op, orig))

\* A batch with an imaginary part that is not zero has been multiplied (its
\* imaginary parts were negated, and the second matmul accumulated).
C10_Witness ==
  /\ op = "complex_matvecs_mul" /\ ret.status = "ok"
  /\ Len(mem.im_v) = 2 /\ mem.N = 2
  /\ \A j \in 1..2 : mem.im_v[j][1] # Zero
  /\ ev = <<"vstack", "vstack", "vstack", "matmul", "matmul">>

(***************************************************************************)
(* The log parser of src/python/fft/perf_analysis.py.                      *)
(*                                                                         *)
(* A log is a sequence of lines and a line a sequence of tokens, the       *)
(* pieces its blanks separate: a word, a number as it is written (a sign   *)
(* "", "+" or "-" and decimal digits) or a dimension "<digits>D-FFT".  A   *)
(* regular expression of the source is the sequence of the tokens it asks  *)
(* for, and re.search finds its leftmost occurrence in the line.  A Python *)
(* value is None, an int, the text of a group, or a name not yet bound.    *)
(* A session of this kind keeps the log in mem.log_file.                   *)
(***************************************************************************)
W(s) == [t |-> "word", w |-> s]

Num(sign, digits) == [t |-> "num", sign |-> sign, digits |-> digits]

DFFT(digits) == [t |-> "D-FFT", digits |-> digits]

PyNone == [t |-> "None"]

PyInt(v) == [t |-> "int", v |-> v]

PyStr(sign, digits) == [t |-> "str", sign |-> sign, digits |-> digits]

Unbound == [t |-> "unbound"]

\* Pieces of a pattern: a literal word, one of several words, [-+]?[0-9]+
\* and [0-9] before "D-FFT"; cap says whether the piece is a group.
Lit(s) == [p |-> "lit", ws |-> {s}, cap |-> FALSE]

Alt(ws) == [p |-> "lit", ws |-> ws, cap |-> FALSE]

SignedInt(cap) == [p |-> "int", ws |-> {}, cap |-> cap]

Digit(cap) == [p |-> "digit", ws |-> {}, cap |-> cap]

sizes_regx ==
  <<Lit("Building"), Digit(TRUE), Lit("of"), Lit("input-size"), SignedInt(TRUE),
    Alt({"batch-size", "x"}), SignedInt(TRUE), Lit("radix-size"), SignedInt(TRUE)>>

cycles_regx == <<Lit("FFT"), Lit("completed"), Lit("in"), SignedInt(TRUE), Lit("cycles.")>>

flop_regx == <<Lit("estimated"), Lit("FLOP"), Lit("count:"), SignedInt(TRUE)>>

matmul_regx ==
  <<Lit("DFT"), Lit("Re-Matmul"), Lit("shape:"), SignedInt(FALSE), SignedInt(FALSE),
    Lit("x"), SignedInt(FALSE), SignedInt(TRUE)>>

serialise_regx ==
  <<Lit("Serialised"), Lit("FFT"), Lit("input"), Lit("shape:"), SignedInt(FALSE),
    SignedInt(FALSE), Lit("serialisation-factor:"), SignedInt(TRUE)>>

Accepts(e, tok) ==
  IF e.p = "lit" THEN tok.t = "word" /\ tok.w \in e.ws
  ELSE IF e.p = "int" THEN tok.t = "num"
  ELSE tok.t = "D-FFT" /\ Len(tok.digits) = 1

MatchAt(regx, line, off) ==
  /\ off + Len(regx) - 1 <= Len(line)
  /\ \A i \in 1..Len(regx) : Accepts(regx[i], line[off + i - 1])

GroupText(tok) == PyStr(IF tok.t = "num" THEN tok.sign ELSE "", tok.digits)

\* The groups of the leftmost match, or None.
search(regx, line) ==
  LET offs == {off \in 1..Len(line) : MatchAt(regx, line, off)}
  IN  IF offs = {} THEN PyNone
      ELSE LET off == CHOOSE o \in offs : \A o2 \in offs : o <= o2
               caps == SelectSeq([i \in 1..Len(regx) |->
                                    [cap |-> regx[i].cap, tok |-> line[off + i - 1]]],
                                 LAMBDA c : c.cap)
           IN  [t |-> "match", group |-> [i \in 1..Len(caps) |-> GroupText(caps[i].tok)]]

RECURSIVE Decimal(_)
Decimal(digits) ==
  IF digits = <<>> THEN 0
  ELSE 10 * Decimal(SubSeq(digits, 1, Len(digits) - 1)) + digits[Len(digits)]

\* int(x): of a string its value, of an int itself; int(None) is a TypeError.
int(x) ==
  IF x.t = "str"
  THEN [status |-> "ok",
        v |-> PyInt(IF x.sign = "-" THEN 0 - Decimal(x.digits) ELSE Decimal(x.digits))]
  ELSE IF x.t = "int" THEN [status |-> "ok", v |-> x]
  ELSE IF x.t = "None" THEN [status |-> "TypeError", v |-> PyNone]
  ELSE [status |-> "UnboundLocalError", v |-> PyNone]

\* The locals before the loop (perf_analysis.py:26-32).
Locals0 ==
  [fft_type |-> Unbound, input_size |-> PyNone, batch_size |-> PyNone,
   radix_size |-> PyNone, fft_cycles |-> PyNone, flops |-> PyNone,
   dft_batch_size |-> PyNone, serialisation |-> PyInt(1)]

\* One turn of the loop (perf_analysis.py:35-52).
ReadLine(v, line) ==
  LET match1 == search(sizes_regx, line)
      match2 == search(cycles_regx, line)
      match3 == search(flop_regx, line)
      match4 == search(matmul_regx, line)
      match5 == search(serialise_regx, line)
      v1 == IF match1 # PyNone
            THEN [v EXCEPT !.fft_type = match1.group[1], !.input_size = match1.group[2],
                           !.batch_size = match1.group[3], !.radix_size = match1.group[4]]
            ELSE v
      v2 == IF match2 # PyNone THEN [v1 EXCEPT !.fft_cycles = match2.group[1]] ELSE v1
      v3 == IF match3 # PyNone THEN [v2 EXCEPT !.flops = match3.group[1]] ELSE v2
      v4 == IF match4 # PyNone THEN [v3 EXCEPT !.dft_batch_size = match4.group[1]] ELSE v3
  IN  IF match5 # PyNone THEN [v4 EXCEPT !.serialisation = match5.group[1]] ELSE v4

RECURSIVE ReadLines(_, _)
ReadLines(v, f) ==
  IF f = <<>> THEN v ELSE ReadLines(ReadLine(v, Head(f)), Tail(f))

\* return e1, ..., en: the elements are evaluated left to right, and the
\* first that raises ends the call.
ReturnTuple(es) ==
  LET bad == {i \in 1..Len(es) : es[i].status # "ok"}
  IN  IF bad = {} THEN [status |-> "ok", value |-> [i \in 1..Len(es) |-> es[i].v]]
      ELSE [status |-> es[CHOOSE i \in bad : \A j \in bad : i <= j].status,
            value |-> <<>>]

Const(x) == [status |-> "ok", v |-> x]

\* The parameter is read through args.log_file, which __main__ passes.
getFFTInfoFromLog(log_file) ==
  LET v == ReadLines(Locals0, log_file)
  IN  IF v.input_size = PyNone
      THEN [status |-> "RuntimeError", value |-> <<>>]
      ELSE IF v.fft_cycles = PyNone \/ v.flops = PyNone
      THEN ReturnTuple(<<int(v.fft_type), int(v.input_size), int(v.batch_size),
                         int(v.radix_size), Const(PyNone), Const(PyNone),
                         int(v.dft_batch_size), int(v.serialisation)>>)
      ELSE ReturnTuple(<<int(v.fft_type), int(v.input_size), int(v.batch_size),
                         int(v.radix_size), int(v.fft_cycles), int(v.flops),
                         int(v.dft_batch_size), int(v.serialisation)>>)

MaxLogLines == 4

\* Lines a run of the tool writes, and lines that look like them.
LogLines ==
  { <<W("Building"), DFFT(<<1>>), W("of"), W("input-size"), Num("", <<6, 4>>),
      W("batch-size"), Num("", <<2>>), W("radix-size"), Num("", <<0, 8>>)>>,
    <<W("Building"), DFFT(<<2>>), W("of"), W("input-size"), Num("", <<1, 6>>),
      W("x"), Num("+", <<1, 6>>), W("radix-size"), Num("", <<4>>)>>,
    <<W("Building"), DFFT(<<1, 2>>), W("of"), W("input-size"), Num("", <<6, 4>>),
      W("batch-size"), Num("", <<2>>), W("radix-size"), Num("", <<8>>)>>,
    <<W("DFT"), W("Re-Matmul"), W("shape:"), Num("", <<8>>), Num("", <<8>>),
      W("x"), Num("", <<8>>), Num("", <<3, 2>>)>>,
    <<W("Serialised"), W("FFT"), W("input"), W("shape:"), Num("", <<2>>),
      Num("", <<6, 4>>), W("serialisation-factor:"), Num("", <<2>>)>>,
    <<W("FFT"), W("completed"), W("in"), Num("", <<7, 5, 0>>), W("cycles.")>>,
    <<W("FFT"), W("estimated"), W("FLOP"), W("count:"), Num("-", <<9, 0>>)>>,
    <<W("Out"), W("of"), W("memory")>> }

\* The logs of at most n lines.
Logs(n) == UNION {[1..k -> LogLines] : k \in 0..n}

LogInit ==
  /\ kind = "log"
  /\ mem \in {[log_file |-> f] : f \in Logs(MaxLogLines)}
  /\ orig = mem
  /\ op = "none"
  /\ ret = [status |-> "none"]
  /\ ev = <<>>

CallGetFFTInfoFromLog ==
  /\ kind = "log"
  /\ op' = "getFFTInfoFromLog"
  /\ ret' = getFFTInfoFromLog(mem.log_file)
  /\ UNCHANGED <<kind, mem, orig, ev>>

LogNext == CallGetFFTInfoFromLog

SpecLog == LogInit /\ [][LogNext]_vars

\* What kinds of line a log holds.
Holds(regx, f) == \E i \in 1..Len(f) : search(regx, f[i]) # PyNone

\* The sizes a sizes line states, as integers.
SizesOf(line) ==
  LET g == search(sizes_regx, line).group
  IN  [i \in 1..4 |-> int(g[i]).v]

\* C11: a log with a sizes line that lacks the cycles line or the FLOP line
\* still yields the FFT type, input size, batch size and radix size of a
\* sizes line, with None for the cycles and for the FLOP count, and does not
\* raise; a RuntimeError is raised exactly for a log without a sizes line.
C11_AsStated ==
  op = "getFFTInfoFromLog" =>
    LET f == orig.log_file
    IN  /\ (ret.status = "RuntimeError") <=> ~Holds(sizes_regx, f)
        /\ (Holds(sizes_regx, f) /\ ~(Holds(cycles_regx, f) /\ Holds(flop_regx, f)))
             => /\ ret.status = "ok"
                /\ \E i \in 1..Len(f) :
                     /\ search(sizes_regx, f[i]) # PyNone
                     /\ SubSeq(ret.value, 1, 4) = SizesOf(f[i])
                /\ ret.value[5] = PyNone
                /\ ret.value[6] = PyNone

====
